---- MODULE Spec2Model ----
(***************************************************************************)
(* X12FunctionalGroup (src/src/X12FunctionalGroup.ts): a GS/GE envelope    *)
(* holding an ordered list of transactions, with its construction          *)
(* operations (setHeader, addTransaction) and its two serializers          *)
(* (toString, toJSON).                                                     *)
(*                                                                         *)
(* Text is modelled by real strings (\o is string concatenation), elements *)
(* by objects with a value field, segments by objects with tag, elements   *)
(* and options.  A JavaScript call that throws keeps every assignment made *)
(* before the throw.                                                       *)
(*                                                                         *)
(* X12Segment, X12Element, X12Transaction, JSEDINotation and               *)
(* defaultSerializationOptions are imported by the source file but are not *)
(* part of it; they are modelled from the specification.                   *)
(***************************************************************************)
EXTENDS Naturals, Sequences, FiniteSets

VARIABLES header, trailer, transactions, options, last

vars == <<header, trailer, transactions, options, last>>

\* ------------------------------------------------------------------ bounds

\* Most transactions a group holds in the model.
MaxTx == 2
\* Most body segments the transactions of a group hold together in the model.
MaxSegs == 1

\* ------------------------------------------------------------- JS values

\* The JavaScript value undefined (an unset field, an omitted argument).
Undefined == [undefined |-> TRUE]

\* What a call did: returned a value, or threw.
Return(v) == [kind |-> "return", value |-> v]
Throw(e) == [kind |-> "throw", value |-> e]
Void == "void"

\* --------------------------------------------------------------- options

DefaultOptions ==
  [elementDelimiter |-> "*", segmentTerminator |-> "~", endOfLine |-> "\n", format |-> FALSE]

\* Every field the caller left out takes its default value.
defaultSerializationOptions(o) ==
  IF o = Undefined THEN DefaultOptions
  ELSE [f \in DOMAIN DefaultOptions |-> IF f \in DOMAIN o THEN o[f] ELSE DefaultOptions[f]]

\* options !== undefined ? defaultSerializationOptions(options) : this.options
EffectiveOptions(o, thisOptions) ==
  IF o # Undefined THEN defaultSerializationOptions(o) ELSE thisOptions

\* ------------------------------------------------------------ the inputs

\* The options arguments a caller passes to the constructor.
ConstructorOptionArgs == {Undefined, [elementDelimiter |-> "|", format |-> TRUE]}
\* The options arguments a caller passes to one call.
CallOptionArgs == {Undefined, [format |-> TRUE, endOfLine |-> "\r\n"]}
\* GS headers: eight elements, element 6 the group control number.
GSHeaders ==
  { <<"PO", "SENDER", "RECEIVER", "20260101", "1200", "1", "X", "004010">>,
    <<"PO", "SENDER", "RECEIVER", "20260101", "1200", "27", "X", "004010">> }
\* ST headers: transaction set identifier and control number.
STHeaders == { <<"850", "0001">> }
\* Body segments.
BodySegments == { [tag |-> "BEG", elements |-> <<"00", "SA">>] }
\* GE segments of source texts: transaction count, group control number.
GETrailers == { <<"1", "1">>, <<"2", "27">> }

\* --------------------------------------------------- X12Element, X12Segment

X12Element(value) == [value |-> value]

X12Segment(tag, o) ==
  [tag |-> tag, elements |-> <<>>, options |-> defaultSerializationOptions(o)]

setElements(seg, values) ==
  [seg EXCEPT !.elements = [i \in 1..Len(values) |-> X12Element(values[i])]]

\* Positions are 1-indexed; a position past the end replaces nothing.
replaceElement(seg, value, segmentPosition) ==
  IF Len(seg.elements) < segmentPosition THEN seg
  ELSE [seg EXCEPT !.elements[segmentPosition] = X12Element(value)]

NullValue == "null"

valueOf(seg, segmentPosition) ==
  IF Len(seg.elements) < segmentPosition THEN NullValue
  ELSE seg.elements[segmentPosition].value

RECURSIVE ElementsToString(_, _, _)
ElementsToString(elements, o, i) ==
  IF i > Len(elements) THEN ""
  ELSE o.elementDelimiter \o elements[i].value \o ElementsToString(elements, o, i + 1)

\* tag, elements joined by the element delimiter, segment terminator.
SegmentToString(seg, o) ==
  LET eo == EffectiveOptions(o, seg.options)
  IN  seg.tag \o ElementsToString(seg.elements, eo, 1) \o eo.segmentTerminator

\* `${n}`: the decimal digits of a natural number.
Digit == <<"0", "1", "2", "3", "4", "5", "6", "7", "8", "9">>

RECURSIVE DecimalString(_)
DecimalString(n) ==
  IF n < 10 THEN Digit[n + 1]
  ELSE DecimalString(n \div 10) \o Digit[(n % 10) + 1]

\* ---------------------------------------------------------- X12Transaction

X12Transaction(o, oid) ==
  [oid |-> oid, header |-> Undefined, trailer |-> Undefined, segments |-> <<>>,
   options |-> defaultSerializationOptions(o)]

\* The SE trailer mirrors the control number of the ST header.
TransactionSetHeader(t, elements) ==
  LET h == setElements(X12Segment("ST", t.options), elements)
  IN  [t EXCEPT !.header = h,
                !.trailer = setElements(X12Segment("SE", t.options), <<valueOf(h, 2)>>)]

TransactionAddSegment(t, tag, elements) ==
  [t EXCEPT !.segments = Append(@, setElements(X12Segment(tag, t.options), elements))]

RECURSIVE TransactionSegmentsToString(_, _, _)
TransactionSegmentsToString(segments, o, i) ==
  IF i > Len(segments) THEN ""
  ELSE SegmentToString(segments[i], o) \o (IF o.format THEN o.endOfLine ELSE "")
       \o TransactionSegmentsToString(segments, o, i + 1)

\* Header, body segments in order, trailer; a transaction with no header
\* cannot be generated.
TransactionToString(t, o) ==
  LET eo == EffectiveOptions(o, t.options)
  IN  IF t.header = Undefined THEN Throw("IncompleteContainerError")
      ELSE Return(SegmentToString(t.header, eo) \o (IF eo.format THEN eo.endOfLine ELSE "")
                  \o TransactionSegmentsToString(t.segments, eo, 1)
                  \o SegmentToString(t.trailer, eo))

\* ------------------------------------------------------------ JSEDINotation

JSEDIFunctionalGroup(headerValues) == [header |-> headerValues, transactions |-> <<>>]

JSEDITransaction(headerValues) == [header |-> headerValues, segments |-> <<>>]

JSEDISegment(tag, elementValues) == [tag |-> tag, elements |-> elementValues]

\* Faulty variant: the values are collected in reverse order.
ElementValues_Reversed(seg) ==
  [i \in 1..Len(seg.elements) |-> seg.elements[Len(seg.elements) + 1 - i].value]

\* elements.map(x => x.value)
ElementValues(seg) == [i \in 1..Len(seg.elements) |-> seg.elements[i].value]

\* ------------------------------------------------------ X12FunctionalGroup

\* The group object: its four fields.
Group(h, t, txs, o) == [header |-> h, trailer |-> t, transactions |-> txs, options |-> o]

This == Group(header, trailer, transactions, options)

\* constructor (options?)
NewGroup(o) == Group(Undefined, Undefined, <<>>, defaultSerializationOptions(o))

\* Faulty variant: the count of a new trailer starts at zero.
setTrailer_CountZero(g, o) ==
  LET eo == EffectiveOptions(o, g.options)
  IN  [g EXCEPT !.trailer =
         setElements(X12Segment("GE", eo), <<"0", valueOf(g.header, 6)>>)]

\* Faulty variant: the trailer mirrors element 5 of the header.
setTrailer_WrongElement(g, o) ==
  LET eo == EffectiveOptions(o, g.options)
  IN  [g EXCEPT !.trailer =
         setElements(X12Segment("GE", eo),
                     <<DecimalString(Len(g.transactions)), valueOf(g.header, 5)>>)]

\* Faulty variant: the trailer is built with the instance options.
setTrailer_InstanceOptions(g, o) ==
  [g EXCEPT !.trailer =
     setElements(X12Segment("GE", g.options),
                 <<DecimalString(Len(g.transactions)), valueOf(g.header, 6)>>)]

\* _setTrailer (options?): a new GE segment [count, group control number].
setTrailer(g, o) ==
  LET eo == EffectiveOptions(o, g.options)
  IN  [g EXCEPT !.trailer =
         setElements(X12Segment("GE", eo),
                     <<DecimalString(Len(g.transactions)), valueOf(g.header, 6)>>)]

\* setHeader (elements, options?)
setHeader(g, elements, o) ==
  LET eo == EffectiveOptions(o, g.options)
      g1 == [g EXCEPT !.header = setElements(X12Segment("GS", eo), elements)]
  IN  [g |-> setTrailer(g1, eo), out |-> Return(Void)]

\* Faulty variant: the new transaction is created with the instance options.
addTransaction_InstanceOptions(g, o) ==
  LET transaction == X12Transaction(g.options, Len(g.transactions) + 1)
      g1 == [g EXCEPT !.transactions = Append(@, transaction)]
  IN  IF g1.trailer = Undefined
      THEN [g |-> g1, out |-> Throw("TypeError")]
      ELSE [g |-> [g1 EXCEPT !.trailer =
                     replaceElement(@, DecimalString(Len(g1.transactions)), 1)],
            out |-> Return(transaction)]

\* addTransaction (options?): the push happens before the trailer is read, so
\* it stays when the read of an unset trailer throws.
addTransaction(g, o) ==
  LET eo == EffectiveOptions(o, g.options)
      transaction == X12Transaction(eo, Len(g.transactions) + 1)
      g1 == [g EXCEPT !.transactions = Append(@, transaction)]
  IN  IF g1.trailer = Undefined
      THEN [g |-> g1, out |-> Throw("TypeError")]
      ELSE [g |-> [g1 EXCEPT !.trailer =
                     replaceElement(@, DecimalString(Len(g1.transactions)), 1)],
            out |-> Return(transaction)]

RECURSIVE toStringLoop(_, _, _, _)
toStringLoop(g, o, i, edi) ==
  IF edi.kind = "throw" \/ i > Len(g.transactions) THEN edi
  ELSE LET t == TransactionToString(g.transactions[i], o)
       IN  toStringLoop(g, o, i + 1,
             IF t.kind = "throw" THEN t
             ELSE Return(edi.value \o t.value \o (IF o.format THEN o.endOfLine ELSE "")))

\* Faulty variant: the trailer count is recomputed when the text is generated.
toStringTrailer_Recomputed(g, o, edi) ==
  IF edi.kind = "throw" THEN edi
  ELSE IF g.trailer = Undefined THEN Throw("TypeError")
  ELSE Return(edi.value
              \o SegmentToString(
                   replaceElement(g.trailer, DecimalString(Len(g.transactions)), 1), o))

\* edi += this.trailer.toString(options)
toStringTrailer(g, o, edi) ==
  IF edi.kind = "throw" THEN edi
  ELSE IF g.trailer = Undefined THEN Throw("TypeError")
  ELSE Return(edi.value \o SegmentToString(g.trailer, o))

\* let edi = this.header.toString(options), and the end of line after it
toStringHeader(g, o) ==
  IF g.header = Undefined THEN Throw("TypeError")
  ELSE Return(SegmentToString(g.header, o) \o (IF o.format THEN o.endOfLine ELSE ""))

\* Faulty variant: the effective options are stored in the instance.
toString_AssignsOptions(g, o) ==
  LET eo == EffectiveOptions(o, g.options)
  IN  [g |-> [g EXCEPT !.options = eo],
       out |-> toStringTrailer(g, eo, toStringLoop(g, eo, 1, toStringHeader(g, eo)))]

\* Faulty variant: a group with no header serializes to the empty text.
toString_GuardsHeader(g, o) ==
  LET eo == EffectiveOptions(o, g.options)
  IN  [g |-> g,
       out |-> IF g.header = Undefined THEN Return("")
               ELSE toStringTrailer(g, eo, toStringLoop(g, eo, 1, toStringHeader(g, eo)))]

\* toString (options?): reads of an unset header or trailer throw; the group
\* object is not assigned to.
toString(g, o) ==
  LET eo == EffectiveOptions(o, g.options)
  IN  [g |-> g,
       out |-> toStringTrailer(g, eo, toStringLoop(g, eo, 1, toStringHeader(g, eo)))]

RECURSIVE toJSONSegments(_, _, _)
toJSONSegments(segments, i, jsenTransaction) ==
  IF i > Len(segments) THEN jsenTransaction
  ELSE toJSONSegments(segments, i + 1,
         [jsenTransaction EXCEPT !.segments =
            Append(@, JSEDISegment(segments[i].tag, ElementValues(segments[i])))])

RECURSIVE toJSONLoop(_, _, _)
toJSONLoop(g, i, jsen) ==
  IF jsen.kind = "throw" \/ i > Len(g.transactions) THEN jsen
  ELSE LET transaction == g.transactions[i]
       IN  toJSONLoop(g, i + 1,
             IF transaction.header = Undefined THEN Throw("TypeError")
             ELSE Return([jsen.value EXCEPT !.transactions =
                            Append(@, toJSONSegments(transaction.segments, 1,
                                        JSEDITransaction(ElementValues(transaction.header))))]))

\* Faulty variant: the trailer's element values are copied into the notation.
toJSON_CopiesTrailer(g) ==
  [g |-> g,
   out |-> IF g.header = Undefined THEN Throw("TypeError")
           ELSE toJSONLoop(g, 1,
                  Return([header |-> ElementValues(g.header), transactions |-> <<>>,
                          trailer |-> ElementValues(g.trailer)]))]

\* toJSON (): the trailer is not read.
toJSON(g) ==
  [g |-> g,
   out |-> IF g.header = Undefined THEN Throw("TypeError")
           ELSE toJSONLoop(g, 1, Return(JSEDIFunctionalGroup(ElementValues(g.header))))]

\* ------------------------------------------------------------- X12Generator

RECURSIVE GeneratorAddSegments(_, _, _)
GeneratorAddSegments(t, jsenSegments, i) ==
  IF i > Len(jsenSegments) THEN t
  ELSE GeneratorAddSegments(
         TransactionAddSegment(t, jsenSegments[i].tag, jsenSegments[i].elements),
         jsenSegments, i + 1)

\* One addTransaction per notation transaction, in order; the transaction
\* returned is the one the group holds, and is built in place.
RECURSIVE GeneratorAddTransactions(_, _, _)
GeneratorAddTransactions(g, jsenTransactions, i) ==
  IF i > Len(jsenTransactions) THEN g
  ELSE LET g1 == addTransaction(g, Undefined).g
           n == Len(g1.transactions)
           t == GeneratorAddSegments(
                  TransactionSetHeader(g1.transactions[n], jsenTransactions[i].header),
                  jsenTransactions[i].segments, 1)
       IN  GeneratorAddTransactions([g1 EXCEPT !.transactions[n] = t],
                                    jsenTransactions, i + 1)

\* The group rebuilt from its notation: setHeader, then the transactions.
GeneratorFromNotation(jsen, o) ==
  GeneratorAddTransactions(setHeader(NewGroup(o), jsen.header, Undefined).g,
                           jsen.transactions, 1)

\* ------------------------------------------------------------------ actions

\* A call's effect on the group fields, and the record of the call.
Apply(r, op, arg) ==
  /\ header' = r.g.header
  /\ trailer' = r.g.trailer
  /\ transactions' = r.g.transactions
  /\ options' = r.g.options
  /\ last' = [op |-> op, arg |-> arg, out |-> r.out]

Init ==
  /\ \E o \in ConstructorOptionArgs :
       /\ header = NewGroup(o).header
       /\ trailer = NewGroup(o).trailer
       /\ transactions = NewGroup(o).transactions
       /\ options = NewGroup(o).options
  /\ last = [op |-> "constructor", arg |-> Undefined, out |-> Return(Void)]

SetHeader ==
  \E elements \in GSHeaders, o \in CallOptionArgs :
    Apply(setHeader(This, elements, o), "setHeader", o)

AddTransaction ==
  /\ Len(transactions) < MaxTx
  /\ \E o \in CallOptionArgs :
       Apply(addTransaction(This, o), "addTransaction", o)

ToString ==
  \E o \in CallOptionArgs :
    Apply(toString(This, o), "toString", o)

ToJSON ==
  Apply(toJSON(This), "toJSON", Undefined)

\* The caller builds a transaction it holds: transaction.setHeader(elements).
TxSetHeader ==
  \E i \in 1..Len(transactions), elements \in STHeaders :
    Apply([g |-> [This EXCEPT !.transactions[i] = TransactionSetHeader(@, elements)],
           out |-> Return(Void)], "transaction.setHeader", Undefined)

\* The body segments of the first n transactions, counted.
RECURSIVE BodySegmentCount(_, _)
BodySegmentCount(txs, n) ==
  IF n = 0 THEN 0 ELSE BodySegmentCount(txs, n - 1) + Len(txs[n].segments)

\* The caller builds a transaction it holds: transaction.addSegment(tag, elements).
TxAddSegment ==
  \E i \in 1..Len(transactions), s \in BodySegments :
    /\ BodySegmentCount(transactions, Len(transactions)) < MaxSegs
    /\ Apply([g |-> [This EXCEPT !.transactions[i] =
                       TransactionAddSegment(@, s.tag, s.elements)],
              out |-> Return(Void)], "transaction.addSegment", Undefined)

\* A parser that has read the GS segment reads the GE segment of the source
\* text and assigns it to the public trailer field as it stands.
ParserAssignTrailer ==
  /\ header # Undefined
  /\ \E elements \in GETrailers :
       Apply([g |-> [This EXCEPT !.trailer =
                       setElements(X12Segment("GE", options), elements)],
              out |-> Return(Void)], "parser.trailer", Undefined)

Next ==
  \/ SetHeader
  \/ AddTransaction
  \/ ToString
  \/ ToJSON
  \/ TxSetHeader
  \/ TxAddSegment

\* Groups built through the construction operations.
Spec == Init /\ [][Next]_vars

NextParsed ==
  \/ Next
  \/ ParserAssignTrailer

\* Groups built through the construction operations or by a parser.
SpecParsed == Init /\ [][NextParsed]_vars

\* ------------------------------------------------------------------- claims

HeaderSet == header # Undefined

TrailerSet == trailer # Undefined

AllTransactionHeadersSet == \A i \in 1..Len(transactions) : transactions[i].header # Undefined

\* The effective options of the recorded call.
LastOptions == IF last.arg # Undefined THEN defaultSerializationOptions(last.arg) ELSE options

\* C1: whenever the GE trailer exists, its element 1 is the decimal string of
\* transactions.length, after any sequence of setHeader and addTransaction
\* calls, a setHeader after transactions were added included.
C1_CountSynchronized ==
  TrailerSet =>
    /\ Len(trailer.elements) >= 1
    /\ trailer.elements[1].value = DecimalString(Len(transactions))

\* setHeader was called on a group that already held two transactions.
C1_Witness ==
  /\ last.op = "setHeader"
  /\ Len(transactions) >= 2
  /\ trailer.elements[1].value = "2"

\* C9: while the header is set, the GE trailer has exactly two elements and
\* its element 2 is the value of element 6 of the current GS header.
C9_ControlNumberMirrored ==
  HeaderSet =>
    /\ TrailerSet
    /\ Len(trailer.elements) = 2
    /\ trailer.elements[2].value = header.elements[6].value

\* addTransaction succeeded on a group whose control number is "27".
C9_Witness ==
  /\ last.op = "addTransaction"
  /\ last.out.kind = "return"
  /\ HeaderSet
  /\ header.elements[6].value = "27"

\* C10: header and trailer are both set or both unset, and both carry the
\* options of the most recent setHeader call (the instance options when the
\* call passed none).
C10_HeaderTrailerPaired ==
  /\ HeaderSet <=> TrailerSet
  /\ HeaderSet => header.options = trailer.options
  /\ last.op = "setHeader" =>
       header.options = (IF last.arg # Undefined
                         THEN [f \in DOMAIN DefaultOptions |->
                                 IF f \in DOMAIN last.arg THEN last.arg[f]
                                 ELSE DefaultOptions[f]]
                         ELSE options)

\* A call failed on a group whose header was set with per-call options.
C10_Witness ==
  /\ HeaderSet
  /\ header.options # options
  /\ last.out.kind = "throw"

\* Each piece followed by the separator, in order.
RECURSIVE JoinEach(_, _)
JoinEach(pieces, sep) ==
  IF pieces = <<>> THEN ""
  ELSE JoinEach(SubSeq(pieces, 1, Len(pieces) - 1), sep) \o pieces[Len(pieces)] \o sep

\* C3: toString returns header.toString(o), each transaction's toString(o) in
\* order, then trailer.toString(o), all with the effective options o of the
\* call; o.endOfLine follows the header and every transaction when o.format is
\* true and nothing is inserted when it is false; the trailer piece is the
\* text of the trailer's stored elements.
C3_ContainerSerialization ==
  (last.op = "toString" /\ last.out.kind = "return") =>
    LET o == LastOptions
        pieces == <<SegmentToString(header, o)>>
                  \o [i \in 1..Len(transactions) |-> TransactionToString(transactions[i], o).value]
    IN  /\ o.format =>
             last.out.value = JoinEach(pieces, o.endOfLine) \o SegmentToString(trailer, o)
        /\ ~o.format =>
             last.out.value = JoinEach(pieces, "") \o SegmentToString(trailer, o)

\* toString returned the text of a group whose stored trailer count is not
\* the number of its transactions.
C3_Witness ==
  /\ last.op = "toString"
  /\ last.out.kind = "return"
  /\ Len(transactions) >= 1
  /\ trailer.elements[1].value # DecimalString(Len(transactions))

\* C4: toString and toJSON leave header, trailer, transactions and instance
\* options unchanged, and a call repeated with the same arguments returns the
\* same result.
C4_SerializersReadOnly ==
  [][last'.op \in {"toString", "toJSON"} =>
       /\ UNCHANGED <<header, trailer, transactions, options>>
       /\ (last.op = last'.op /\ last.arg = last'.arg) => last'.out = last.out]_vars

\* toString returned a text under per-call options that differ from the
\* instance options.
C4_Witness ==
  /\ last.op = "toString"
  /\ last.out.kind = "return"
  /\ last.arg # Undefined
  /\ LastOptions # options
  /\ Len(transactions) >= 1

\* C5 as stated: toString on a group with no header fails with an
\* IncompleteContainerError, and toString on a group whose header was set
\* through setHeader never fails.
C5_AsStated ==
  last.op = "toString" =>
    /\ ~HeaderSet => last.out = Throw("IncompleteContainerError")
    /\ HeaderSet => last.out.kind = "return"

\* C5 amended: toString on a group with no header throws the TypeError of the
\* read of the unset header and returns no text; toString on a group whose
\* header is set and whose transactions all have their header set returns.
C5_NoHeaderThrows ==
  last.op = "toString" =>
    /\ ~HeaderSet => last.out = Throw("TypeError")
    /\ (HeaderSet /\ AllTransactionHeadersSet) => last.out.kind = "return"

\* toString was called on a group with no header.
C5_Witness ==
  /\ last.op = "toString"
  /\ ~HeaderSet
  /\ last.out.kind = "throw"

\* C6: an addTransaction that fails leaves the transactions sequence
\* unchanged.
C6_AddTransactionAtomic ==
  [][(last'.op = "addTransaction" /\ last'.out.kind = "throw") =>
       transactions' = transactions]_vars

\* C7: a successful addTransaction on a group with n transactions returns the
\* new transaction, which is element n+1 of transactions; the first n
\* transactions, the header and the instance options are unchanged; the
\* trailer changes in its element 1 only; the new transaction carries the
\* per-call options when supplied and the instance options otherwise.
C7_AddTransactionAppends ==
  [][(last'.op = "addTransaction" /\ last'.out.kind = "return") =>
       LET n == Len(transactions)
       IN  /\ Len(transactions') = n + 1
           /\ last'.out.value = transactions'[n + 1]
           /\ last'.out.value.oid \notin {transactions[i].oid : i \in 1..n}
           /\ SubSeq(transactions', 1, n) = transactions
           /\ header' = header
           /\ options' = options
           /\ trailer'.tag = trailer.tag
           /\ trailer'.options = trailer.options
           /\ Len(trailer'.elements) = Len(trailer.elements)
           /\ \A k \in 2..Len(trailer.elements) : trailer'.elements[k] = trailer.elements[k]
           /\ last'.out.value.options =
                (IF last'.arg # Undefined THEN defaultSerializationOptions(last'.arg)
                 ELSE options)]_vars

\* addTransaction with per-call options returned the second transaction of a
\* group whose first transaction has been built.
C7_Witness ==
  /\ last.op = "addTransaction"
  /\ last.out.kind = "return"
  /\ last.arg # Undefined
  /\ last.out.value.options # options
  /\ Len(transactions) >= 2
  /\ transactions[1].header # Undefined

RoundTripHolds ==
  LET g == This
      rebuilt == GeneratorFromNotation(toJSON(g).out.value, g.options)
  IN  \A o \in CallOptionArgs : toString(rebuilt, o).out = toString(g, o).out

\* The trailer holds what setHeader and addTransaction keep in it.
TrailerConsistent ==
  /\ Len(trailer.elements) = 2
  /\ trailer.elements[1].value = DecimalString(Len(transactions))
  /\ trailer.elements[2].value = header.elements[6].value

\* C2 as stated: every group with a header and a trailer, its trailer built
\* by setHeader/addTransaction or assigned from source text, serializes to
\* the same text as the group rebuilt from its notation.
C2_AsStated ==
  (HeaderSet /\ TrailerSet /\ toJSON(This).out.kind = "return") => RoundTripHolds

\* C2 amended: every group with a header and a trailer whose trailer holds
\* the decimal count of its transactions and the control number of its
\* header serializes to the same text as the group rebuilt from its notation.
C2_RoundTrip ==
  (HeaderSet /\ TrailerSet /\ toJSON(This).out.kind = "return" /\ TrailerConsistent)
    => RoundTripHolds

\* A parser assigned a trailer that agrees with the group: one built
\* transaction with a body segment, control number "1".
C2_Witness ==
  /\ last.op = "parser.trailer"
  /\ TrailerConsistent
  /\ Len(transactions) = 1
  /\ AllTransactionHeadersSet
  /\ Len(transactions[1].segments) >= 1

====
